---- MODULE Spec2Model ----
(***************************************************************************)
(* Model of the marwind tiling engine (package wm): the tree of            *)
(* workspaces, columns and frames, the frame lifecycle, the move and       *)
(* placement operations, the render engine and the X event loop.           *)
(*                                                                         *)
(* One handler of WM.Run is one action.  The X server is modelled by the   *)
(* requests a handler issues (reqs), the set of client windows the server  *)
(* holds mapped (srvMapped) and the queue of notifications it has          *)
(* generated and the loop has not fetched yet (events).                    *)
(*                                                                         *)
(* uint32 values are kept as their 32-bit pattern read as a signed         *)
(* number: a negative value v stands for the unsigned value 2^32 + v.      *)
(* Sums and differences of small magnitude are then exact modulo 2^32.     *)
(***************************************************************************)
EXTENDS Integers, Sequences, FiniteSets, TLC

\* ---------------------------------------------------------------- bounds
MaxWin == 3          \* client windows are 1..MaxWin
LoopWin == 2         \* the clients the full event loop is exposed to
NumWs == 2           \* workspaces 0..NumWs-1 (maxWorkspaces scaled down)
MaxEvents == 2       \* notifications queued and not yet fetched
OutW == 1920         \* screen width in pixels
OutH == 1080         \* screen height in pixels
InnerGap == 5        \* config.InnerGap
MaxGap == 600        \* the largest config.InnerGap a session is started with
DockH == 30          \* height of a dock window

Windows == 1..MaxWin
Clients == 1..LoopWin
WsIds == 0..(NumWs - 1)
Dirs == {"left", "right", "up", "down"}
Areas == {"top", "bottom"}
MaxCols == MaxWin + 1
ColIds == 1..MaxCols

\* X window ids: the client windows, one container window per client, root
ParentOf(w) == MaxWin + w
Root == 2 * MaxWin + 1
NoWin == 0

\* outputs: 0 is nil, 1 is wm.outputs[0], 2 is an output other than it
NoOutput == 0
Output0 == 1
OtherOutput == 2

\* an error value: its text (msg, the outermost fmt.Errorf), the text of the
\* error it wraps (cause, equal to msg when it wraps none) and the window or
\* workspace id it is about
NoErr == [msg |-> "nil", cause |-> "nil", win |-> 0]

Err(m, w) == [msg |-> m, cause |-> m, win |-> w]

\* A fault is the set of <<request kind, window>> pairs the server rejects
\* while one handler runs.
XWins == 1..Root

\* the faults a handler is exposed to: none, or the server rejects every
\* request of one of the given kinds
FaultsOf(kinds) == {{}} \cup {{k} \X XWins : k \in kinds}

\* the same, the server rejecting the requests of one kind on one window
FaultOn(kinds) == {{}} \cup {{<<k, w>>} : k \in kinds, w \in XWins}

VARIABLES
  frames,      \* managed window -> frame (typ, parent, mapped, geom, height, col)
  columns,     \* column id -> column (ws, frames, width)
  wsColumns,   \* workspace id -> sequence of column ids (workspace.columns)
  wsOutput,    \* workspace id -> owning output (workspace.output)
  activeWs,    \* wm.outputs[0].activeWs
  dockAreas,   \* dock area -> sequence of dock frames (output.dockAreas)
  activeWin,   \* wm.activeWin
  events,      \* notifications generated by the server, not yet fetched
  srvMapped,   \* client windows the server holds mapped
  reqs,        \* requests issued by the handler that ran last
  last,        \* what the handler that ran last was and what it returned
  panicked,    \* the process died of a runtime panic
  geomKept,    \* whether this run keeps frame.geom (see renderFrame)
  config,      \* wm.config (InnerGap)
  mgr          \* the state of the older loop, Manager.Run (package manager)

vars == <<frames, columns, wsColumns, wsOutput, activeWs, dockAreas,
          activeWin, events, srvMapped, reqs, last, panicked, geomKept, config, mgr>>

\* ------------------------------------------------------- small utilities
Restrict(f, S) == [x \in S |-> f[x]]

Extend(f, k, v) == [x \in (DOMAIN f) \cup {k} |-> IF x = k THEN v ELSE f[x]]

Range(s) == {s[i] : i \in DOMAIN s}

IndexOf(s, x) == IF \E i \in DOMAIN s : s[i] = x
                 THEN CHOOSE i \in DOMAIN s : s[i] = x /\ \A j \in 1..(i - 1) : s[j] # x
                 ELSE 0

RemoveAt(s, i) == SubSeq(s, 1, i - 1) \o SubSeq(s, i + 1, Len(s))

Remove(s, x) == IF IndexOf(s, x) = 0 THEN s ELSE RemoveAt(s, IndexOf(s, x))

ZeroGeom == [x |-> 0, y |-> 0, w |-> 0, h |-> 0]

\* uint32 arithmetic wraps around.  TLC integers are 32 bits wide and
\* signed, so the word is 30 bits here: every pixel value that has not
\* wrapped is far below it, one that has is close to it.
Word == 2^30

U32(n) == n % Word

\* The whole program state as one record, so that the steps of a handler
\* compose as functions.
State == [frames |-> frames, columns |-> columns, wsColumns |-> wsColumns,
          wsOutput |-> wsOutput, activeWs |-> activeWs, dockAreas |-> dockAreas,
          activeWin |-> activeWin, events |-> events, srvMapped |-> srvMapped,
          reqs |-> <<>>, err |-> NoErr, flt |-> {}, geomKept |-> geomKept,
          config |-> config]


\* ------------------------------------------------------------ X server
\* A checked request: it is recorded, and it fails when the fault rejects
\* it or when it names no window (BadWindow for window id 0).
Fails(s, kind, win) == win = NoWin \/ <<kind, win>> \in s.flt

XReqG(s, kind, win, g) ==
  [s EXCEPT !.reqs = Append(@, [kind |-> kind, win |-> win, geom |-> g]),
            !.err = IF Fails(s, kind, win) THEN Err(kind, win) ELSE NoErr]

XReq(s, kind, win) ==
  [s EXCEPT !.reqs = Append(@, [kind |-> kind, win |-> win, geom |-> ZeroGeom]),
            !.err = IF Fails(s, kind, win) THEN Err(kind, win) ELSE NoErr]

\* UnmapWindow on a client window: a mapped window becomes unmapped and the
\* server queues an UnmapNotify for it; on an unmapped window nothing happens
\* An event carries, besides what the code reads (type, win), where it
\* comes from: by is "wm" for a request of the window manager and "client"
\* otherwise, ws is the workspace of the frame when the request was made.
Event(type, w, by, ws) == [type |-> type, win |-> w, by |-> by, ws |-> ws]

XUnmapClient(s, w) ==
  LET s1 == XReq(s, "UnmapWindow", w)
      ws == IF s.frames[w].col # 0 THEN s.columns[s.frames[w].col].ws ELSE -1
  IN IF s1.err # NoErr \/ w \notin s1.srvMapped THEN s1
     ELSE [s1 EXCEPT !.srvMapped = @ \ {w},
                     !.events = Append(@, Event("UnmapNotify", w, "wm", ws))]

XMapClient(s, w) ==
  LET s1 == XReq(s, "MapWindow", w)
  IN IF s1.err # NoErr THEN s1 ELSE [s1 EXCEPT !.srvMapped = @ \cup {w}]


\* ------------------------------------------------------ frame lifecycle
Ok(s) == [s EXCEPT !.err = NoErr]

\* fmt.Errorf(m + ": %v", err)
Wrap(s, m, w) ==
  IF s.err = NoErr THEN s ELSE [s EXCEPT !.err = [msg |-> m, cause |-> @.cause, win |-> @.win]]

\* createParent: a fresh window id, then CreateWindow on it
createParent(s, w) == Wrap(XReq(s, "CreateWindow", ParentOf(w)), "could not create window", w)

\* reparent: ReparentWindow of the client, then f.parent = parent
reparent(s, w, parent) ==
  LET s1 == XReq(s, "ReparentWindow", w)
  IN IF s1.err # NoErr THEN Wrap(s1, "could not reparent window", w)
     ELSE [s1 EXCEPT !.frames[w].parent = parent]

\* createFrame: the frame exists in s.frames only when no error is returned
createFrame(s, w, typ, h) ==
  LET f == [typ |-> typ, parent |-> NoWin, mapped |-> FALSE, geom |-> ZeroGeom,
            height |-> h, col |-> 0]
      s0 == [s EXCEPT !.frames = Extend(@, w, f)]
      drop(x) == [x EXCEPT !.frames = s.frames]
  IN IF typ # "normal" THEN Ok(s0)
     ELSE LET s1 == createParent(s0, w)
          IN IF s1.err # NoErr THEN drop(Wrap(s1, "failed to create parent", w))
             ELSE LET s2 == reparent(s1, w, ParentOf(w))
                  IN IF s2.err # NoErr THEN drop(s2) ELSE s2

\* doMap, were the mapped flag left as it was
doMap_Forgets(s, w) ==
  LET f == s.frames[w]
      s1 == IF f.parent # NoWin THEN XReq(s, "MapWindow", f.parent) ELSE Ok(s)
  IN IF s1.err # NoErr THEN Wrap(s1, "could not map parent", w)
     ELSE LET s2 == XMapClient(s1, w)
          IN IF s2.err # NoErr THEN Wrap(s2, "could not map window", w) ELSE s2

doMap(s, w) ==
  LET f == s.frames[w]
      s1 == IF f.parent # NoWin THEN XReq(s, "MapWindow", f.parent) ELSE Ok(s)
  IN IF s1.err # NoErr THEN Wrap(s1, "could not map parent", w)
     ELSE LET s2 == XMapClient(s1, w)
          IN IF s2.err # NoErr THEN Wrap(s2, "could not map window", w)
             ELSE [s2 EXCEPT !.frames[w].mapped = TRUE]

doUnmap(s, w) == Wrap(XUnmapClient(s, w), "could not unmap window", w)

\* onUnmap, were the mapped flag not looked at
onUnmap_NoCheck(s, w) ==
  LET f == s.frames[w]
      s1 == IF f.parent # NoWin THEN XReq(s, "UnmapWindow", f.parent) ELSE Ok(s)
  IN IF s1.err # NoErr THEN Wrap(s1, "could not unmap parent", w)
     ELSE [s1 EXCEPT !.frames[w].mapped = FALSE]

onUnmap(s, w) ==
  LET f == s.frames[w]
  IN IF ~f.mapped THEN Ok(s)
     ELSE LET s1 == IF f.parent # NoWin THEN XReq(s, "UnmapWindow", f.parent) ELSE Ok(s)
          IN IF s1.err # NoErr THEN Wrap(s1, "could not unmap parent", w)
             ELSE [s1 EXCEPT !.frames[w].mapped = FALSE]

onDestroy(s, w) ==
  LET f == s.frames[w]
      s1 == IF f.parent # NoWin THEN XReq(s, "DestroyWindow", f.parent) ELSE Ok(s)
  IN Wrap(s1, "could not destroy parent", w)

\* frame.workspace: the workspace of the owning column, -1 for nil
frameWorkspace(s, w) ==
  IF s.frames[w].col # 0 THEN s.columns[s.frames[w].col].ws ELSE -1


\* ------------------------------------------------- containers (the tree)
\* output.dockHeight: the summed height of the dock frames of one area
RECURSIVE SumHeights(_, _)
SumHeights(s, ws) == IF ws = <<>> THEN 0
                     ELSE s.frames[Head(ws)].height + SumHeights(s, Tail(ws))

dockHeight(s, area) == SumHeights(s, s.dockAreas[area])

\* workspace.fullArea: the output rectangle minus the occupied dock areas
fullArea(s) == [x |-> 0, y |-> dockHeight(s, "top"), w |-> OutW,
                h |-> OutH - dockHeight(s, "top") - dockHeight(s, "bottom")]

\* workspace.area: the area the columns are laid out in
area(s) == fullArea(s)

\* workspace.singleFrame: the only frame of the workspace, 0 when there is
\* not exactly one column holding exactly one frame
singleFrame(s, ws) ==
  IF Len(s.wsColumns[ws]) = 1 /\ Len(s.columns[s.wsColumns[ws][1]].frames) = 1
  THEN s.columns[s.wsColumns[ws][1]].frames[1] ELSE 0

\* share i of n of a span: equal parts, the last one takes the remainder
Share(span, n, i) == IF i = n THEN span - (n - 1) * (span \div n) ELSE span \div n

\* workspace.updateTiling: column widths and frame heights of one workspace
updateTiling(s, ws) ==
  LET cs == s.wsColumns[ws]
      a == area(s)
      widthOf(c) == Share(a.w, Len(cs), IndexOf(cs, c))
      heightOf(w) == LET fs == s.columns[s.frames[w].col].frames
                     IN Share(a.h, Len(fs), IndexOf(fs, w))
      inWs(w) == s.frames[w].col # 0 /\ s.frames[w].col \in Range(cs)
  IN [s EXCEPT
        !.columns = [c \in DOMAIN s.columns |->
                       IF c \in Range(cs) THEN [s.columns[c] EXCEPT !.width = widthOf(c)]
                       ELSE s.columns[c]],
        !.frames = [w \in DOMAIN s.frames |->
                       IF inWs(w) THEN [s.frames[w] EXCEPT !.height = heightOf(w)]
                       ELSE s.frames[w]]]

RECURSIVE TileFrom(_, _)
TileFrom(s, ws) == IF ws >= NumWs THEN s ELSE TileFrom(updateTiling(s, ws), ws + 1)

\* every workspace is re-tiled when the usable area changes
TileAll(s) == TileFrom(s, 0)

\* column.findFrameIndex / workspace.findColumnIndex, 0-based, -1 if absent
findFrameIndex(s, c, w) == IndexOf(s.columns[c].frames, w) - 1

findColumnIndex(s, ws, c) == IndexOf(s.wsColumns[ws], c) - 1

\* column.deleteFrame: the frame leaves the column's order
colDeleteFrame(s, c, w) ==
  IF findFrameIndex(s, c, w) < 0 THEN s
  ELSE updateTiling([s EXCEPT !.columns[c].frames = Remove(@, w),
                              !.frames[w].col = 0], s.columns[c].ws)

\* column.addFrame(f, nil): the frame enters the column's order at its end
\* and its back-reference names the column
colAddFrame(s, c, w) ==
  updateTiling([s EXCEPT !.columns[c].frames = Append(@, w),
                         !.frames[w].col = c], s.columns[c].ws)

FreshCol(s) == CHOOSE c \in ColIds : c \notin DOMAIN s.columns
                                     /\ \A d \in ColIds : d < c => d \in DOMAIN s.columns

\* workspace.createColumn(start): a new empty column at the left (start) or
\* right edge of the workspace
createColumn(s, ws, start) ==
  LET c == FreshCol(s)
  IN updateTiling([s EXCEPT !.columns = Extend(@, c, [ws |-> ws, frames |-> <<>>, width |-> 0]),
                            !.wsColumns[ws] = IF start THEN <<c>> \o @ ELSE Append(@, c)], ws)

\* workspace.deleteColumn: the column leaves the workspace's column order
deleteColumn(s, ws, c) ==
  updateTiling([s EXCEPT !.columns = Restrict(@, DOMAIN @ \ {c}),
                         !.wsColumns[ws] = Remove(@, c)], ws)

\* the column of workspace ws that holds frame w, 0 when there is none
ColumnOf(s, ws, w) ==
  IF \E i \in DOMAIN s.wsColumns[ws] : w \in Range(s.columns[s.wsColumns[ws][i]].frames)
  THEN s.wsColumns[ws][CHOOSE i \in DOMAIN s.wsColumns[ws] :
                           w \in Range(s.columns[s.wsColumns[ws][i]].frames)]
  ELSE 0

\* workspace.deleteFrame: FALSE (state unchanged) when no column of the
\* workspace holds the frame; a column emptied by the removal is deleted
wsHasFrame(s, ws, w) == ColumnOf(s, ws, w) # 0

wsDeleteFrame(s, ws, w) ==
  LET c == ColumnOf(s, ws, w)
      s1 == colDeleteFrame(s, c, w)
  IN IF c = 0 THEN s
     ELSE IF s1.columns[c].frames = <<>> THEN deleteColumn(s1, ws, c) ELSE s1

\* workspace.addFrame: the frame enters an existing column (slot names its
\* index) or a new column at the right edge (slot beyond the last column)
wsAddFrame(s, ws, w, slot) ==
  LET cs == s.wsColumns[ws]
  IN IF slot > Len(cs) THEN LET s1 == createColumn(s, ws, FALSE)
                            IN colAddFrame(s1, s1.wsColumns[ws][Len(cs) + 1], w)
     ELSE colAddFrame(s, cs[slot], w)

\* output.addWorkspace: the workspace is attached to outputs[0]
addWorkspace(s, ws) == Ok([s EXCEPT !.wsOutput[ws] = Output0])

\* output.addDock
addDock(s, a, w) == TileAll([s EXCEPT !.dockAreas[a] = Append(@, w)])

\* output.deleteFrame: the frame leaves the dock area or the workspace of
\* outputs[0] that holds it; FALSE (state unchanged) when none does
outputHasFrame(s, w) ==
  \/ \E a \in Areas : w \in Range(s.dockAreas[a])
  \/ \E ws \in WsIds : s.wsOutput[ws] = Output0 /\ wsHasFrame(s, ws, w)

DropFrame(s, w) == [s EXCEPT !.frames = Restrict(@, DOMAIN @ \ {w})]

outputDeleteFrame(s, w) ==
  IF \E a \in Areas : w \in Range(s.dockAreas[a])
  THEN TileAll([s EXCEPT !.dockAreas = [a \in Areas |-> Remove(s.dockAreas[a], w)]])
  ELSE IF \E ws \in WsIds : s.wsOutput[ws] = Output0 /\ wsHasFrame(s, ws, w)
  THEN wsDeleteFrame(s, CHOOSE ws \in WsIds : s.wsOutput[ws] = Output0 /\ wsHasFrame(s, ws, w), w)
  ELSE s


\* --------------------------------------------------------------- render
\* the latest error of a loop: e unless the step just made returned nil
Keep(s, e) == IF s.err # NoErr THEN s ELSE [s EXCEPT !.err = e]

\* renderFrame, were an unmapped frame rendered like a mapped one
renderFrame_NoCheck(s, w, geom) ==
  LET f == s.frames[w]
      s0 == IF s.geomKept THEN [s EXCEPT !.frames[w].geom = geom] ELSE s
      s1 == XReqG(s0, "ConfigureWindow", f.parent, geom)
  IN IF s1.err # NoErr THEN s1
     ELSE LET s2 == XReqG(s1, "ConfigureWindow", w,
                          [x |-> 0, y |-> 0, w |-> geom.w, h |-> geom.h])
          IN IF s2.err # NoErr THEN s2
             ELSE XReqG(s2, "SendEvent", w, geom)

\* renderFrame, were the geometry stored only once the server has taken it
renderFrame_StoresLate(s, w, geom) ==
  IF ~s.frames[w].mapped THEN Ok(s)
  ELSE LET f == s.frames[w]
           s1 == XReqG(s, "ConfigureWindow", f.parent, geom)
       IN IF s1.err # NoErr THEN s1
          ELSE LET s2 == XReqG(s1, "ConfigureWindow", w,
                               [x |-> 0, y |-> 0, w |-> geom.w, h |-> geom.h])
               IN IF s2.err # NoErr THEN s2
                  ELSE LET s3 == XReqG(s2, "SendEvent", w, geom)
                       IN IF s3.geomKept /\ s3.err = NoErr
                          THEN [s3 EXCEPT !.frames[w].geom = geom] ELSE s3

\* renderFrame, were the error of the container's ConfigureWindow dropped
\* and the client configured all the same
renderFrame_GoesOn(s, w, geom) ==
  IF ~s.frames[w].mapped THEN Ok(s)
  ELSE LET f == s.frames[w]
           s0 == IF s.geomKept THEN [s EXCEPT !.frames[w].geom = geom] ELSE s
           s1 == XReqG(s0, "ConfigureWindow", f.parent, geom)
           s2 == XReqG(s1, "ConfigureWindow", w,
                       [x |-> 0, y |-> 0, w |-> geom.w, h |-> geom.h])
       IN IF s2.err # NoErr THEN s2
          ELSE XReqG(s2, "SendEvent", w, geom)

\* frame.geom is written here and read by no handler.  A run that states
\* nothing about stored geometry does not keep it (geomKept = FALSE, the
\* field stays zero); the geometry sent to the server is in reqs either way.
renderFrame(s, w, geom) ==
  IF ~s.frames[w].mapped THEN Ok(s)
  ELSE LET f == s.frames[w]
           s0 == IF s.geomKept THEN [s EXCEPT !.frames[w].geom = geom] ELSE s
           s1 == XReqG(s0, "ConfigureWindow", f.parent, geom)
       IN IF s1.err # NoErr THEN s1
          ELSE LET s2 == XReqG(s1, "ConfigureWindow", w,
                               [x |-> 0, y |-> 0, w |-> geom.w, h |-> geom.h])
               IN IF s2.err # NoErr THEN s2
                  ELSE XReqG(s2, "SendEvent", w, geom)

\* the loop of renderColumn from frame index i on, y and err as left by the
\* iterations before
RECURSIVE renderColumnLoop(_, _, _, _, _, _)
renderColumnLoop(s, c, geom, i, y, err) ==
  IF i > Len(s.columns[c].frames) THEN [s EXCEPT !.err = err]
  ELSE LET w == s.columns[c].frames[i]
           gap == s.config.InnerGap
           fg == [x |-> U32(geom.x + gap), y |-> U32(y + gap),
                  w |-> U32(geom.w - U32(gap * 2)),
                  h |-> U32(s.frames[w].height - U32(gap * 2))]
           s1 == renderFrame(s, w, fg)
       IN renderColumnLoop(s1, c, geom, i + 1, U32(y + s.frames[w].height),
                           Keep(s1, err).err)

\* renderColumn, were the running y started one gap below the rectangle
renderColumn_GapTwice(s, c, geom) ==
  renderColumnLoop(s, c, geom, 1, geom.y + s.config.InnerGap, NoErr)

renderColumn(s, c, geom) == renderColumnLoop(s, c, geom, 1, geom.y, NoErr)

RECURSIVE renderWorkspaceLoop(_, _, _, _, _)
renderWorkspaceLoop(s, ws, i, x, err) ==
  IF i > Len(s.wsColumns[ws]) THEN [s EXCEPT !.err = err]
  ELSE LET c == s.wsColumns[ws][i]
           a == area(s)
           geom == [x |-> x, y |-> a.y, w |-> s.columns[c].width, h |-> a.h]
           s1 == renderColumn(s, c, geom)
       IN renderWorkspaceLoop(s1, ws, i + 1, x + s.columns[c].width, Keep(s1, err).err)

\* renderWorkspace, were a lone frame laid out like any other
renderWorkspace_NoFastPath(s, ws) == renderWorkspaceLoop(s, ws, 1, area(s).x, NoErr)

renderWorkspace(s, ws) ==
  IF singleFrame(s, ws) # 0 THEN renderFrame(s, singleFrame(s, ws), fullArea(s))
  ELSE renderWorkspaceLoop(s, ws, 1, area(s).x, NoErr)

RECURSIVE renderDockLoop(_, _, _, _, _)
renderDockLoop(s, a, i, y, err) ==
  IF i > Len(s.dockAreas[a]) THEN [s EXCEPT !.err = err]
  ELSE LET w == s.dockAreas[a][i]
           geom == [x |-> 0, y |-> y, w |-> OutW, h |-> s.frames[w].height]
           s1 == renderFrame(s, w, geom)
       IN renderDockLoop(s1, a, i + 1, y + geom.h, s1.err)

renderDock(s, a) ==
  renderDockLoop(s, a, 1, IF a = "top" THEN 0 ELSE OutH - dockHeight(s, a), NoErr)

\* renderOutput, were the first error kept instead of the latest
renderOutput_KeepsFirst(s) ==
  LET s1 == renderDock(s, "top")
      s2 == renderDock(s1, "bottom")
      s3 == renderWorkspace(s2, s2.activeWs)
  IN [s3 EXCEPT !.err = IF s1.err # NoErr THEN s1.err
                        ELSE IF s2.err # NoErr THEN s2.err ELSE s3.err]

renderOutput(s) ==
  LET s1 == renderDock(s, "top")
      s2 == Keep(renderDock(s1, "bottom"), s1.err)
  IN Keep(renderWorkspace(s2, s2.activeWs), s2.err)

\* ---------------------------------------------------------------- focus
\* WM.setFocus: input focus moves to the window and it becomes activeWin
setFocus(s, w) ==
  LET s1 == XReq(s, "SetInputFocus", w)
  IN IF s1.err # NoErr THEN s1 ELSE [s1 EXCEPT !.activeWin = w]

\* WM.removeFocus: input focus goes back to the root, no window is active
removeFocus(s) ==
  LET s1 == XReq(s, "SetInputFocus", Root)
  IN IF s1.err # NoErr THEN s1 ELSE [s1 EXCEPT !.activeWin = NoWin]

\* WM.updateDesktopHints: the hints are properties of the root window
updateDesktopHints(s) == XReq(s, "ChangeProperty", Root)


\* ----------------------------------------------------------- operations
\* WM.findFrame: the frame of a client window, searched in the columns of
\* every workspace and then in the dock areas; 0 when there is none
findFrame(s, win) ==
  IF \E ws \in WsIds : wsHasFrame(s, ws, win) THEN win
  ELSE IF \E a \in Areas : win \in Range(s.dockAreas[a]) THEN win
  ELSE 0

\* ensureWorkspace, were a workspace of another output taken over like an
\* unassigned one
ensureWorkspace_Attaches(s, id) ==
  IF id \notin WsIds THEN [s EXCEPT !.err = Err("no workspace with ID", id)]
  ELSE IF s.wsOutput[id] # Output0 THEN addWorkspace(s, id)
  ELSE Ok(s)

\* WM.ensureWorkspace: the workspace is the id itself when err is nil
ensureWorkspace(s, id) ==
  IF id \notin WsIds THEN [s EXCEPT !.err = Err("no workspace with ID", id)]
  ELSE IF s.wsOutput[id] = NoOutput THEN addWorkspace(s, id)
  ELSE IF s.wsOutput[id] # Output0
       THEN [s EXCEPT !.err = Err("multiple outputs not supported yet", id)]
  ELSE Ok(s)

\* moveSideways, were origCol.deleteFrame(f) forgotten
moveSideways_NoDelete(s, f, left) ==
  LET origCol == s.frames[f].col
      ws == s.columns[origCol].ws
      i == findColumnIndex(s, ws, origCol)
      atEdge == IF left THEN i = 0 ELSE i = Len(s.wsColumns[ws]) - 1
  IN IF atEdge
     THEN LET sc == createColumn(s, ws, left)
              col == IF left THEN sc.wsColumns[ws][1]
                     ELSE sc.wsColumns[ws][Len(sc.wsColumns[ws])]
          IN colAddFrame(sc, col, f)
     ELSE LET col == IF left THEN s.wsColumns[ws][(i - 1) + 1]
                     ELSE s.wsColumns[ws][(i + 1) + 1]
          IN colAddFrame(s, col, f)

\* moveSideways, were the emptied column left in the workspace
moveSideways_KeepsEmpty(s, f, left) ==
  LET origCol == s.frames[f].col
      ws == s.columns[origCol].ws
      i == findColumnIndex(s, ws, origCol)
      s1 == colDeleteFrame(s, origCol, f)
      atEdge == IF left THEN i = 0 ELSE i = Len(s1.wsColumns[ws]) - 1
  IN IF atEdge
     THEN LET sc == createColumn(s1, ws, left)
              col == IF left THEN sc.wsColumns[ws][1]
                     ELSE sc.wsColumns[ws][Len(sc.wsColumns[ws])]
          IN colAddFrame(sc, col, f)
     ELSE LET col == IF left THEN s1.wsColumns[ws][(i - 1) + 1]
                     ELSE s1.wsColumns[ws][(i + 1) + 1]
          IN colAddFrame(s1, col, f)

\* moveSideways, were the new column created at the opposite edge
moveSideways_WrongEdge(s, f, left) ==
  LET origCol == s.frames[f].col
      ws == s.columns[origCol].ws
      i == findColumnIndex(s, ws, origCol)
      s1 == colDeleteFrame(s, origCol, f)
      atEdge == IF left THEN i = 0 ELSE i = Len(s1.wsColumns[ws]) - 1
      s2 == IF atEdge
            THEN LET sc == createColumn(s1, ws, ~left)
                     col == IF ~left THEN sc.wsColumns[ws][1]
                            ELSE sc.wsColumns[ws][Len(sc.wsColumns[ws])]
                 IN colAddFrame(sc, col, f)
            ELSE LET col == IF left THEN s1.wsColumns[ws][(i - 1) + 1]
                            ELSE s1.wsColumns[ws][(i + 1) + 1]
                 IN colAddFrame(s1, col, f)
  IN IF Len(s2.columns[origCol].frames) = 0 THEN deleteColumn(s2, ws, origCol) ELSE s2

\* moveSideways, were the frame sent to the column at the edge instead of
\* the neighbouring one
moveSideways_ToEdgeColumn(s, f, left) ==
  LET origCol == s.frames[f].col
      ws == s.columns[origCol].ws
      i == findColumnIndex(s, ws, origCol)
      s1 == colDeleteFrame(s, origCol, f)
      atEdge == IF left THEN i = 0 ELSE i = Len(s1.wsColumns[ws]) - 1
      s2 == IF atEdge
            THEN LET sc == createColumn(s1, ws, left)
                     col == IF left THEN sc.wsColumns[ws][1]
                            ELSE sc.wsColumns[ws][Len(sc.wsColumns[ws])]
                 IN colAddFrame(sc, col, f)
            ELSE LET col == IF left THEN s1.wsColumns[ws][1]
                            ELSE s1.wsColumns[ws][Len(s1.wsColumns[ws])]
                 IN colAddFrame(s1, col, f)
  IN IF Len(s2.columns[origCol].frames) = 0 THEN deleteColumn(s2, ws, origCol) ELSE s2

\* moveWindow left or right for a frame f that has a column
moveSideways(s, f, left) ==
  LET origCol == s.frames[f].col
      ws == s.columns[origCol].ws
      i == findColumnIndex(s, ws, origCol)
      s1 == colDeleteFrame(s, origCol, f)
      atEdge == IF left THEN i = 0 ELSE i = Len(s1.wsColumns[ws]) - 1
      s2 == IF atEdge
            THEN LET sc == createColumn(s1, ws, left)
                     col == IF left THEN sc.wsColumns[ws][1]
                            ELSE sc.wsColumns[ws][Len(sc.wsColumns[ws])]
                 IN colAddFrame(sc, col, f)
            ELSE LET col == IF left THEN s1.wsColumns[ws][(i - 1) + 1]
                            ELSE s1.wsColumns[ws][(i + 1) + 1]
                 IN colAddFrame(s1, col, f)
  IN IF Len(s2.columns[origCol].frames) = 0 THEN deleteColumn(s2, ws, origCol) ELSE s2

\* moveVertically, were up and down mixed up
moveVertically_Reversed(s, f, up) ==
  LET col == s.frames[f].col
      fs == s.columns[col].frames
      i == findFrameIndex(s, col, f)
      j == IF ~up THEN i - 1 ELSE i + 1
      swap == [k \in DOMAIN fs |-> IF k = j + 1 THEN f
                                   ELSE IF k = i + 1 THEN fs[j + 1] ELSE fs[k]]
  IN IF (~up /\ i > 0) \/ (up /\ i < Len(fs) - 1)
     THEN [s EXCEPT !.columns[col].frames = swap]
     ELSE s

\* moveWindow up or down: swap with the neighbour in the column's order
moveVertically(s, f, up) ==
  LET col == s.frames[f].col
      fs == s.columns[col].frames
      i == findFrameIndex(s, col, f)
      j == IF up THEN i - 1 ELSE i + 1
      swap == [k \in DOMAIN fs |-> IF k = j + 1 THEN f
                                   ELSE IF k = i + 1 THEN fs[j + 1] ELSE fs[k]]
  IN IF (up /\ i > 0) \/ (~up /\ i < Len(fs) - 1)
     THEN [s EXCEPT !.columns[col].frames = swap]
     ELSE s

\* WM.moveWindow for a window whose frame has a column
moveWindow(s, win, dir) ==
  LET f == findFrame(s, win)
  IN IF f = 0 THEN Ok(s)
     ELSE IF dir = "left" THEN Ok(moveSideways(s, f, TRUE))
     ELSE IF dir = "right" THEN Ok(moveSideways(s, f, FALSE))
     ELSE IF dir = "up" THEN Ok(moveVertically(s, f, TRUE))
     ELSE Ok(moveVertically(s, f, FALSE))

\* moveWindow reads f.col.ws before anything else: nil for a dock frame
moveWindowPanics(s, win) ==
  findFrame(s, win) # 0 /\ s.frames[findFrame(s, win)].col = 0

\* output.switchWorkspace: the workspace becomes the active one
outputSwitchWorkspace(s, ws) == Ok([s EXCEPT !.activeWs = ws])

\* switchWorkspace, were the error of updateDesktopHints dropped and the
\* focus steps run all the same
switchWorkspace_GoesOn(s, id) ==
  LET s1 == ensureWorkspace(s, id)
  IN IF s1.err # NoErr THEN Wrap(s1, "failed to ensure workspace", id)
     ELSE LET s2 == outputSwitchWorkspace(s1, id)
     IN IF s2.err # NoErr THEN Wrap(s2, "output unable to switch workpace", id)
     ELSE LET s3 == renderWorkspace(s2, id)
     IN IF s3.err # NoErr THEN Wrap(s3, "wm.renderWorkspace", id)
     ELSE LET s5 == removeFocus(updateDesktopHints(s3))
     IN IF s5.err # NoErr THEN Wrap(s5, "failed to remove focus", id)
     ELSE IF Len(s5.wsColumns[id]) > 0 /\ Len(s5.columns[s5.wsColumns[id][1]].frames) > 0
          THEN Wrap(setFocus(s5, s5.columns[s5.wsColumns[id][1]].frames[1]),
                    "failed to set focus", id)
          ELSE Ok(s5)

\* WM.switchWorkspace
switchWorkspace(s, id) ==
  LET s1 == ensureWorkspace(s, id)
  IN IF s1.err # NoErr THEN Wrap(s1, "failed to ensure workspace", id)
     ELSE LET s2 == outputSwitchWorkspace(s1, id)
     IN IF s2.err # NoErr THEN Wrap(s2, "output unable to switch workpace", id)
     ELSE LET s3 == renderWorkspace(s2, id)
     IN IF s3.err # NoErr THEN Wrap(s3, "wm.renderWorkspace", id)
     ELSE LET s4 == updateDesktopHints(s3)
     IN IF s4.err # NoErr THEN Wrap(s4, "failed to update desktop hints", id)
     ELSE LET s5 == removeFocus(s4)
     IN IF s5.err # NoErr THEN Wrap(s5, "failed to remove focus", id)
     ELSE IF Len(s5.wsColumns[id]) > 0 /\ Len(s5.columns[s5.wsColumns[id][1]].frames) > 0
          THEN Wrap(setFocus(s5, s5.columns[s5.wsColumns[id][1]].frames[1]),
                    "failed to set focus", id)
          ELSE Ok(s5)

\* moveFrameToWorkspace, were the frame's unmap handled inside the operation
\* instead of by the loop when the notification arrives
moveFrameToWorkspace_UnmapsInline(s, f, wsID, slot) ==
  LET current == s.activeWs
      s1 == ensureWorkspace(s, wsID)
  IN IF s1.err # NoErr THEN s1
     ELSE IF wsID = current THEN Ok(s1)
     ELSE IF ~wsHasFrame(s1, current, f)
          THEN [s1 EXCEPT !.err = Err("frame not contained within workspace", wsID)]
     ELSE LET s2 == wsAddFrame(wsDeleteFrame(s1, current, f), wsID, f, slot)
              s3 == doUnmap(s2, f)
     IN IF s3.err # NoErr THEN Wrap(s3, "failed to unmap the frame", f)
     ELSE LET s4 == renderWorkspace(onUnmap([s3 EXCEPT !.events = s.events], f), wsID)
     IN IF s4.err # NoErr THEN Wrap(s4, "failed to render next workspace", wsID)
     ELSE LET s5 == renderWorkspace(s4, current)
     IN IF s5.err # NoErr THEN Wrap(s5, "failed to render previous workspace", current)
     ELSE Wrap(updateDesktopHints(s5), "failed to update desktop hints", wsID)

\* moveFrameToWorkspace, were the client left mapped
moveFrameToWorkspace_NoUnmap(s, f, wsID, slot) ==
  LET current == s.activeWs
      s1 == ensureWorkspace(s, wsID)
  IN IF s1.err # NoErr THEN s1
     ELSE IF wsID = current THEN Ok(s1)
     ELSE IF ~wsHasFrame(s1, current, f)
          THEN [s1 EXCEPT !.err = Err("frame not contained within workspace", wsID)]
     ELSE LET s3 == Ok(wsAddFrame(wsDeleteFrame(s1, current, f), wsID, f, slot))
              s4 == renderWorkspace(s3, wsID)
     IN IF s4.err # NoErr THEN Wrap(s4, "failed to render next workspace", wsID)
     ELSE LET s5 == renderWorkspace(s4, current)
     IN IF s5.err # NoErr THEN Wrap(s5, "failed to render previous workspace", current)
     ELSE Wrap(updateDesktopHints(s5), "failed to update desktop hints", wsID)

\* WM.moveFrameToWorkspace
moveFrameToWorkspace(s, f, wsID, slot) ==
  LET current == s.activeWs
      s1 == ensureWorkspace(s, wsID)
  IN IF s1.err # NoErr THEN s1
     ELSE IF wsID = current THEN Ok(s1)
     ELSE IF ~wsHasFrame(s1, current, f)
          THEN [s1 EXCEPT !.err = Err("frame not contained within workspace", wsID)]
     ELSE LET s2 == wsAddFrame(wsDeleteFrame(s1, current, f), wsID, f, slot)
              s3 == doUnmap(s2, f)
     IN IF s3.err # NoErr THEN Wrap(s3, "failed to unmap the frame", f)
     ELSE LET s4 == renderWorkspace(s3, wsID)
     IN IF s4.err # NoErr THEN Wrap(s4, "failed to render next workspace", wsID)
     ELSE LET s5 == renderWorkspace(s4, current)
     IN IF s5.err # NoErr THEN Wrap(s5, "failed to render previous workspace", current)
     ELSE Wrap(updateDesktopHints(s5), "failed to update desktop hints", wsID)

\* WM.deleteFrame
deleteFrame(s, f) ==
  IF outputHasFrame(s, f)
  THEN LET s1 == setFocus(DropFrame(outputDeleteFrame(s, f), f), Root)
       IN IF s1.err # NoErr THEN s1 ELSE renderOutput(s1)
  ELSE [s EXCEPT !.err = Err("could not find frame to delete", f)]

\* WM.manageWindow: the frame is created, enters the active workspace or a
\* dock area, is mapped and rendered; a normal window takes the focus
manageWindow(s, win, typ, a, slot) ==
  LET s1 == createFrame(s, win, typ, IF typ = "dock" THEN DockH ELSE 0)
  IN IF s1.err # NoErr THEN s1
     ELSE LET s2 == IF typ = "dock" THEN addDock(s1, a, win)
                    ELSE wsAddFrame(s1, s1.activeWs, win, slot)
              s3 == doMap(s2, win)
     IN IF s3.err # NoErr THEN s3
     ELSE LET s4 == IF typ = "dock" THEN renderOutput(s3)
                    ELSE renderWorkspace(s3, s3.activeWs)
     IN IF s4.err # NoErr \/ typ = "dock" THEN s4 ELSE setFocus(s4, win)

\* a managed window is shown again: the frame it has is mapped where it is
\* and its workspace, or the output for a dock, is rendered
remapWindow(s, win) ==
  LET f == findFrame(s, win)
      s1 == doMap(s, f)
  IN IF s1.err # NoErr THEN s1
     ELSE IF s1.frames[f].typ = "dock" THEN renderOutput(s1)
     ELSE renderWorkspace(s1, frameWorkspace(s1, f))


\* ------------------------------------------- Manager.Run (package manager)
\* The older loop: the windows it manages in the order of its workspace,
\* its activeWin, whether Run is still looping, and the handler that ran
\* last with the error it returned ("nil" for none).
MgrInit == [running |-> TRUE, frames |-> <<>>, activeWin |-> NoWin,
            last |-> "init", err |-> "nil"]

\* what a key action, container.ManageWindow or a focus request returns
MgrResults == {"nil", "error"}

\* Manager.addWindow: the frame enters the workspace and takes the focus
\* unless ManageWindow fails
addWindow(m, win, res) ==
  IF res # "nil" THEN [m EXCEPT !.err = res]
  ELSE [m EXCEPT !.frames = Append(@, win), !.activeWin = win, !.err = "nil"]

\* Manager.deleteWindow
deleteWindow(m, win) ==
  IF win \in Range(m.frames) THEN [m EXCEPT !.frames = Remove(@, win), !.err = "nil"]
  ELSE [m EXCEPT !.err = "could not find window to delete"]

\* Manager.setFocus: nothing for a window that has no frame
mgrSetFocus(m, win, res) ==
  IF win \notin Range(m.frames) THEN [m EXCEPT !.err = "nil"]
  ELSE [m EXCEPT !.activeWin = win, !.err = res]

\* one iteration of Manager.Run: the handler of one event has run; only a
\* failed key action makes Run return
MgrStep(m, op) ==
  /\ mgr' = [m EXCEPT !.last = op, !.running = ~(op = "keyPress" /\ m.err # "nil")]
  /\ UNCHANGED <<frames, columns, wsColumns, wsOutput, activeWs, dockAreas,
                 activeWin, events, srvMapped, reqs, last, panicked, geomKept, config>>

MgrKeyPress(res) ==
  /\ mgr.running
  /\ MgrStep([mgr EXCEPT !.err = res], "keyPress")

MgrMapRequest(win, res) ==
  /\ mgr.running
  /\ win \notin Range(mgr.frames)
  /\ MgrStep(addWindow(mgr, win, res), "mapRequest")

MgrDestroyNotify(win) ==
  /\ mgr.running
  /\ MgrStep(deleteWindow(mgr, win), "destroyNotify")

MgrEnterNotify(win, res) ==
  /\ mgr.running
  /\ MgrStep(mgrSetFocus(mgr, win, res), "enterNotify")


\* ------------------------------------------------------- the event loop
Begin(flt) == [State EXCEPT !.flt = flt]

\* the loop is blocked in WaitForEvent: no handler is running or has just run
Idle == [op |-> "idle", win |-> 0, dir |-> "", id |-> 0, err |-> NoErr]

Waiting == last = Idle /\ ~panicked

Op(name, win, dir, id) == [op |-> name, win |-> win, dir |-> dir, id |-> id]

\* Column ids stand for pointers: between two handlers the columns are
\* renamed 1..n in the order the workspaces list them (a column no
\* workspace lists keeps a later id), which changes nothing a handler reads
RECURSIVE ListedFrom(_, _)
ListedFrom(s, ws) == IF ws >= NumWs THEN <<>> ELSE s.wsColumns[ws] \o ListedFrom(s, ws + 1)

RECURSIVE Ascending(_)
Ascending(S) == IF S = {} THEN <<>>
                ELSE LET m == CHOOSE x \in S : \A y \in S : x <= y
                     IN <<m>> \o Ascending(S \ {m})

Canon(s) ==
  LET listed == ListedFrom(s, 0)
      order == listed \o Ascending(DOMAIN s.columns \ Range(listed))
      new(c) == IF c = 0 THEN 0 ELSE IndexOf(order, c)
  IN [s EXCEPT
        !.columns = [k \in 1..Len(order) |-> s.columns[order[k]]],
        !.wsColumns = [ws \in WsIds |-> [i \in 1..Len(s.wsColumns[ws]) |-> new(s.wsColumns[ws][i])]],
        !.frames = [w \in DOMAIN s.frames |-> [s.frames[w] EXCEPT !.col = new(@)]]]

\* a handler has run to its end: its effects become the program state, the
\* error it returned is the one the loop logs
Commit(t, op) ==
  \E s \in {Canon(t)} :
  /\ Len(s.events) <= MaxEvents
  /\ frames' = s.frames
  /\ columns' = s.columns
  /\ wsColumns' = s.wsColumns
  /\ wsOutput' = s.wsOutput
  /\ activeWs' = s.activeWs
  /\ dockAreas' = s.dockAreas
  /\ activeWin' = s.activeWin
  /\ events' = s.events
  /\ srvMapped' = s.srvMapped
  /\ reqs' = s.reqs
  /\ last' = [op |-> op.op, win |-> op.win, dir |-> op.dir, id |-> op.id, err |-> s.err]
  /\ panicked' = FALSE
  /\ UNCHANGED <<geomKept, config, mgr>>

Init ==
  /\ frames = [w \in {} |-> 0]
  /\ columns = [c \in {} |-> 0]
  /\ wsColumns = [ws \in WsIds |-> <<>>]
  /\ wsOutput = [ws \in WsIds |-> IF ws = 0 THEN Output0 ELSE NoOutput]
  /\ activeWs = 0
  /\ dockAreas = [a \in Areas |-> <<>>]
  /\ activeWin = NoWin
  /\ events = <<>>
  /\ srvMapped = {}
  /\ reqs = <<>>
  /\ last = Idle
  /\ panicked = FALSE
  /\ geomKept = FALSE
  /\ config = [InnerGap |-> InnerGap]
  /\ mgr = MgrInit

\* a WM whose higher workspaces may belong to a second output
InitMulti ==
  /\ frames = [w \in {} |-> 0]
  /\ columns = [c \in {} |-> 0]
  /\ wsColumns = [ws \in WsIds |-> <<>>]
  /\ wsOutput \in [WsIds -> {NoOutput, Output0, OtherOutput}]
  /\ wsOutput[0] = Output0
  /\ \A ws \in WsIds \ {0} : wsOutput[ws] # Output0
  /\ \E ws \in WsIds : wsOutput[ws] = OtherOutput
  /\ activeWs = 0
  /\ dockAreas = [a \in Areas |-> <<>>]
  /\ activeWin = NoWin
  /\ events = <<>>
  /\ srvMapped = {}
  /\ reqs = <<>>
  /\ last = Idle
  /\ panicked = FALSE
  /\ geomKept = FALSE
  /\ config = [InnerGap |-> InnerGap]
  /\ mgr = MgrInit

Slots == 1..MaxWin

\* MapRequest for a window that has no frame
MapRequest(win, typ, a, slot, flt) ==
  /\ Waiting
  /\ win \notin DOMAIN frames
  /\ typ = "dock" => slot = 1
  /\ typ = "normal" => a = "top"
  /\ slot <= Len(wsColumns[activeWs]) + 1
  /\ Commit(manageWindow(Begin(flt), win, typ, a, slot), Op("manage", win, typ, 0))

\* MapRequest for a window that has a frame and was withdrawn by its client;
\* the UnmapNotify of the withdrawal was delivered before it
MapRequestAgain(win, flt) ==
  /\ Waiting
  /\ win \in DOMAIN frames
  /\ win \notin srvMapped
  /\ \A i \in DOMAIN events : events[i].win # win
  /\ Commit(remapWindow(Begin(flt), win), Op("remap", win, "", 0))

\* KeyPress bound to a move of the window win: moveWindow, then the caller
\* renders the active workspace
KeyMoveWindow(win, dir, flt) ==
  /\ Waiting
  /\ IF moveWindowPanics(State, win)
     THEN /\ panicked' = TRUE
          /\ reqs' = <<>>
          /\ last' = [op |-> "moveWindow", win |-> win, dir |-> dir, id |-> 0,
                      err |-> Err("nil pointer dereference", win)]
          /\ UNCHANGED <<frames, columns, wsColumns, wsOutput, activeWs, dockAreas,
                         activeWin, events, srvMapped, geomKept, config, mgr>>
     ELSE LET s1 == moveWindow(Begin(flt), win, dir)
          IN Commit(renderWorkspace(s1, s1.activeWs), Op("moveWindow", win, dir, 0))

\* KeyPress bound to a workspace switch
KeySwitchWorkspace(id, flt) ==
  /\ Waiting
  /\ Commit(switchWorkspace(Begin(flt), id), Op("switchWorkspace", 0, "", id))

\* KeyPress bound to sending frame f to a workspace
KeyMoveFrameToWorkspace(f, id, slot, flt) ==
  /\ Waiting
  /\ f \in DOMAIN frames
  /\ slot <= (IF id \in WsIds /\ id # activeWs THEN Len(wsColumns[id]) + 1 ELSE 1)
  /\ Commit(moveFrameToWorkspace(Begin(flt), f, id, slot),
            Op("moveFrameToWorkspace", f, "", id))

\* the loop fetches an UnmapNotify
HandleUnmapNotify(flt) ==
  /\ Waiting
  /\ events # <<>>
  /\ Head(events).type = "UnmapNotify"
  /\ LET s == [Begin(flt) EXCEPT !.events = Tail(@)]
         f == findFrame(s, Head(events).win)
         s1 == onUnmap(s, f)
         ws == frameWorkspace(s1, f)
         op == Op("unmapNotify", Head(events).win, "", 0)
     IN IF f = 0 THEN Commit(s, op)
        ELSE IF s1.err # NoErr THEN Commit(s1, op)
        ELSE IF s1.frames[f].typ = "normal"
             THEN IF ws # -1 THEN Commit(renderWorkspace(updateTiling(s1, ws), ws), op)
                  ELSE Commit(s1, op)
        ELSE IF s1.frames[f].typ = "dock" THEN Commit(renderOutput(s1), op)
        ELSE Commit(s1, op)

\* the loop fetches a DestroyNotify
HandleDestroyNotify(flt) ==
  /\ Waiting
  /\ events # <<>>
  /\ Head(events).type = "DestroyNotify"
  /\ LET s == [Begin(flt) EXCEPT !.events = Tail(@)]
         f == findFrame(s, Head(events).win)
         s1 == onDestroy(s, f)
         op == Op("destroyNotify", Head(events).win, "", 0)
     IN IF f = 0 THEN Commit(s, op)
        ELSE IF s1.err # NoErr THEN Commit(s1, op)
        ELSE Commit(deleteFrame(s1, f), op)

\* the handler has returned and its error, if any, is logged: the loop goes
\* back to WaitForEvent
LoopBack ==
  /\ last # Idle
  /\ ~panicked
  /\ last' = Idle
  /\ reqs' = <<>>
  /\ UNCHANGED <<frames, columns, wsColumns, wsOutput, activeWs, dockAreas,
                 activeWin, events, srvMapped, panicked, geomKept, config, mgr>>

Pending(type, w) == \E i \in DOMAIN events : events[i].type = type /\ events[i].win = w

\* a client unmaps its own window: the server queues the notification
ClientUnmap(w) ==
  /\ Waiting
  /\ w \in srvMapped
  /\ Len(events) < MaxEvents
  /\ srvMapped' = srvMapped \ {w}
  /\ events' = Append(events, Event("UnmapNotify", w, "client", -1))
  /\ UNCHANGED <<frames, columns, wsColumns, wsOutput, activeWs, dockAreas,
                 activeWin, reqs, last, panicked, geomKept, config, mgr>>

\* a client destroys its window: a mapped window is unmapped first
ClientDestroy(w) ==
  /\ Waiting
  /\ w \in DOMAIN frames
  /\ ~Pending("DestroyNotify", w)
  /\ Len(events) + (IF w \in srvMapped THEN 2 ELSE 1) <= MaxEvents
  /\ srvMapped' = srvMapped \ {w}
  /\ events' = events \o (IF w \in srvMapped THEN <<Event("UnmapNotify", w, "client", -1)>>
                          ELSE <<>>) \o <<Event("DestroyNotify", w, "client", -1)>>
  /\ UNCHANGED <<frames, columns, wsColumns, wsOutput, activeWs, dockAreas,
                 activeWin, reqs, last, panicked, geomKept, config, mgr>>

\* the event loop with every kind of event, for the clients 1..LoopWin
Next ==
  \/ \E win \in Clients, typ \in {"normal", "dock"}, a \in Areas, slot \in Slots,
        flt \in FaultsOf({"CreateWindow"}) :
        MapRequest(win, typ, a, slot, flt)
  \/ \E win \in Clients, dir \in Dirs : KeyMoveWindow(win, dir, {})
  \/ \E id \in 0..NumWs : KeySwitchWorkspace(id, {})
  \/ \E f \in Clients, id \in 0..NumWs, slot \in Slots, flt \in FaultsOf({"UnmapWindow"}) :
        KeyMoveFrameToWorkspace(f, id, slot, flt)
  \/ \E flt \in FaultsOf({"UnmapWindow"}) : HandleUnmapNotify(flt)
  \/ \E flt \in FaultsOf({"DestroyWindow"}) : HandleDestroyNotify(flt)
  \/ \E w \in Clients : ClientUnmap(w)
  \/ \E w \in Clients : ClientDestroy(w)
  \/ LoopBack

Spec == Init /\ [][Next]_vars

SpecMulti == InitMulti /\ [][Next]_vars

\* the event loop of a session in which 1..MaxWin normal windows are opened
\* and moved about, no request fails and no client unmaps or closes a window
NextTree ==
  \/ \E win \in Windows, slot \in Slots : MapRequest(win, "normal", "top", slot, {})
  \/ \E win \in Windows, dir \in Dirs : KeyMoveWindow(win, dir, {})
  \/ \E f \in Windows, id \in WsIds, slot \in Slots : KeyMoveFrameToWorkspace(f, id, slot, {})
  \/ HandleUnmapNotify({})
  \/ LoopBack

SpecTree == Init /\ [][NextTree]_vars

\* a WM that keeps the geometry it last gave to a frame (frame.geom)
InitGeom ==
  /\ frames = [w \in {} |-> 0]
  /\ columns = [c \in {} |-> 0]
  /\ wsColumns = [ws \in WsIds |-> <<>>]
  /\ wsOutput = [ws \in WsIds |-> IF ws = 0 THEN Output0 ELSE NoOutput]
  /\ activeWs = 0
  /\ dockAreas = [a \in Areas |-> <<>>]
  /\ activeWin = NoWin
  /\ events = <<>>
  /\ srvMapped = {}
  /\ reqs = <<>>
  /\ last = Idle
  /\ panicked = FALSE
  /\ geomKept = TRUE
  /\ config = [InnerGap |-> InnerGap]
  /\ mgr = MgrInit

\* the event loop of a session in which windows are opened, moved within
\* the workspace and unmapped by their clients
NextGeom ==
  \/ \E win \in Clients, typ \in {"normal", "dock"}, a \in Areas, slot \in Slots :
        MapRequest(win, typ, a, slot, {})
  \/ \E win \in Clients, dir \in Dirs : KeyMoveWindow(win, dir, {})
  \/ HandleUnmapNotify({})
  \/ \E w \in Clients : ClientUnmap(w)
  \/ LoopBack

SpecGeom == InitGeom /\ [][NextGeom]_vars

\* the event loop of a session in which clients withdraw their windows and
\* show them again
NextRemap ==
  \/ \E win \in Clients, typ \in {"normal", "dock"}, a \in Areas, slot \in Slots :
        MapRequest(win, typ, a, slot, {})
  \/ \E win \in Clients, flt \in FaultsOf({"MapWindow"}) : MapRequestAgain(win, flt)
  \/ \E win \in Clients, dir \in Dirs : KeyMoveWindow(win, dir, {})
  \/ \E flt \in FaultsOf({"UnmapWindow"}) : HandleUnmapNotify(flt)
  \/ \E w \in Clients : ClientUnmap(w)
  \/ LoopBack

SpecRemap == Init /\ [][NextRemap]_vars

\* the event loop, frame.geom kept, of a session in which windows are
\* opened, withdrawn, shown again and sent to other workspaces, and the
\* server may reject the requests that map or configure one window
NextPlaced ==
  \/ \E win \in Clients, typ \in {"normal", "dock"}, a \in Areas, slot \in Slots,
        flt \in FaultsOf({"MapWindow", "ConfigureWindow"}) :
        MapRequest(win, typ, a, slot, flt)
  \/ \E win \in Clients, flt \in FaultsOf({"MapWindow", "ConfigureWindow"}) :
        MapRequestAgain(win, flt)
  \/ \E id \in WsIds : KeySwitchWorkspace(id, {})
  \/ \E f \in Clients, id \in WsIds, slot \in Slots : KeyMoveFrameToWorkspace(f, id, slot, {})
  \/ HandleUnmapNotify({})
  \/ \E w \in Clients : ClientUnmap(w)
  \/ LoopBack

SpecPlaced == InitGeom /\ [][NextPlaced]_vars

\* the event loop of a session in which 1..MaxWin windows, normal ones and
\* docks, are opened and withdrawn while the server may reject the
\* ConfigureWindow requests
NextRender ==
  \/ \E win \in Windows, typ \in {"normal", "dock"}, a \in Areas, slot \in Slots,
        flt \in FaultsOf({"ConfigureWindow"}) :
        MapRequest(win, typ, a, slot, flt)
  \/ \E flt \in FaultsOf({"ConfigureWindow"}) : HandleUnmapNotify(flt)
  \/ \E w \in Windows : ClientUnmap(w)
  \/ LoopBack

SpecRender == Init /\ [][NextRender]_vars

\* the event loop, frame.geom kept, of a session in which 1..MaxWin windows,
\* normal ones and docks, are opened and withdrawn
NextScene ==
  \/ \E win \in Windows, typ \in {"normal", "dock"}, a \in Areas, slot \in Slots :
        MapRequest(win, typ, a, slot, {})
  \/ HandleUnmapNotify({})
  \/ \E w \in Windows : ClientUnmap(w)
  \/ LoopBack

SpecScene == InitGeom /\ [][NextScene]_vars

\* the older event loop, Manager.Run, with the windows 1..MaxWin
NextManager ==
  \/ \E res \in MgrResults : MgrKeyPress(res)
  \/ \E win \in Windows, res \in MgrResults : MgrMapRequest(win, res)
  \/ \E win \in Windows : MgrDestroyNotify(win)
  \/ \E win \in Windows, res \in MgrResults : MgrEnterNotify(win, res)

SpecManager == Init /\ [][NextManager]_vars

\* the event loop of a session in which the clients open normal windows,
\* send them to other workspaces and switch between the workspaces, known
\* or not, while the server may reject one kind of request on one window
\* during a switch
NextSwitch ==
  \/ \E win \in Clients, a \in Areas, slot \in Slots : MapRequest(win, "normal", a, slot, {})
  \/ \E id \in 0..NumWs,
        flt \in FaultOn({"ConfigureWindow", "SendEvent", "ChangeProperty", "SetInputFocus"}) :
        KeySwitchWorkspace(id, flt)
  \/ \E f \in Clients, id \in WsIds, slot \in Slots : KeyMoveFrameToWorkspace(f, id, slot, {})
  \/ HandleUnmapNotify({})
  \/ LoopBack

SpecSwitch == Init /\ [][NextSwitch]_vars

\* the event loop, frame.geom kept, of a session in which 1..MaxWin windows,
\* normal ones and docks, are opened and withdrawn while the server may
\* reject the ConfigureWindow or the SendEvent requests on one window
NextFrame ==
  \/ \E win \in Windows, typ \in {"normal", "dock"}, a \in Areas, slot \in Slots,
        flt \in FaultOn({"ConfigureWindow", "SendEvent"}) :
        MapRequest(win, typ, a, slot, flt)
  \/ \E flt \in FaultOn({"ConfigureWindow", "SendEvent"}) : HandleUnmapNotify(flt)
  \/ \E w \in Windows : ClientUnmap(w)
  \/ LoopBack

SpecFrame == InitGeom /\ [][NextFrame]_vars

\* the inner gaps a session is configured with
Gaps == {0, InnerGap, MaxGap \div 2, MaxGap}

\* WM.Init for any of these configurations, frame.geom kept
InitConfig ==
  /\ frames = [w \in {} |-> 0]
  /\ columns = [c \in {} |-> 0]
  /\ wsColumns = [ws \in WsIds |-> <<>>]
  /\ wsOutput = [ws \in WsIds |-> IF ws = 0 THEN Output0 ELSE NoOutput]
  /\ activeWs = 0
  /\ dockAreas = [a \in Areas |-> <<>>]
  /\ activeWin = NoWin
  /\ events = <<>>
  /\ srvMapped = {}
  /\ reqs = <<>>
  /\ last = Idle
  /\ panicked = FALSE
  /\ geomKept = TRUE
  /\ config \in {[InnerGap |-> g] : g \in Gaps}
  /\ mgr = MgrInit

\* the sessions of NextScene under every configured gap
SpecConfig == InitConfig /\ [][NextScene]_vars


\* ================================================================ claims
\* the frames of the columns of a workspace, column by column
LayoutOf(cols, wsCols, ws) == [i \in 1..Len(wsCols[ws]) |-> cols[wsCols[ws][i]].frames]

Layout(ws) == LayoutOf(columns, wsColumns, ws)

\* the places of a frame in the columns and in the dock areas
ColSlots(w) == UNION {{<<c, i>> : i \in {j \in DOMAIN columns[c].frames : columns[c].frames[j] = w}} :
                      c \in DOMAIN columns}

DockSlots(w) == UNION {{<<a, i>> : i \in {j \in DOMAIN dockAreas[a] : dockAreas[a][j] = w}} :
                       a \in Areas}

HasColumn(f) == f \in DOMAIN frames /\ frames[f].col \in DOMAIN columns

\* a handler named op has just run on an idle loop
Handled(op) == last = Idle /\ last'.op = op /\ ~panicked'

MoveStep(f, dir) == Handled("moveWindow") /\ last'.win = f /\ last'.dir = dir

Front(s) == SubSeq(s, 1, Len(s) - 1)

NoEmptyColumn ==
  /\ \A c \in DOMAIN columns : columns[c].frames # <<>>
  /\ \A ws \in WsIds : \A i \in DOMAIN wsColumns[ws] :
        /\ wsColumns[ws][i] \in DOMAIN columns
        /\ columns[wsColumns[ws][i]].ws = ws
  /\ \A c \in DOMAIN columns : \E ws \in WsIds : c \in Range(wsColumns[ws])

SoleInColumn(f) == HasColumn(f) /\ columns[frames[f].col].frames = <<f>>

C2_NoEmptyColumn ==
  [][/\ NoEmptyColumn'
     /\ \A f \in Windows : \A ws \in WsIds :
          (SoleInColumn(f) /\ columns[frames[f].col].ws = ws) =>
            /\ (Handled("destroyNotify") /\ last'.win = f /\ f \notin DOMAIN frames')
                 => Len(wsColumns'[ws]) = Len(wsColumns[ws]) - 1
            /\ (Handled("moveFrameToWorkspace") /\ last'.win = f /\ HasColumn(f)'
                  /\ columns'[frames'[f].col].ws # ws)
                 => Len(wsColumns'[ws]) = Len(wsColumns[ws]) - 1
            /\ (MoveStep(f, "left") /\ wsColumns[ws][1] # frames[f].col)
                 => Len(wsColumns'[ws]) = Len(wsColumns[ws]) - 1
            /\ (MoveStep(f, "right") /\ wsColumns[ws][Len(wsColumns[ws])] # frames[f].col)
                 => Len(wsColumns'[ws]) = Len(wsColumns[ws]) - 1]_vars

C2_Witness ==
  /\ last.op = "destroyNotify" /\ last.win \notin DOMAIN frames
  /\ \E ws \in WsIds : Len(wsColumns[ws]) = 1

\* C3: moveWindow left on a frame of the leftmost column puts the frame alone
\* into a new first column, followed by the columns as they were, the
\* original one without the frame, or without the original one if the frame
\* was its only member; the same to the right for the rightmost column
C3_EdgeMove ==
  [][\A f \in Windows : \A ws \in WsIds :
       (HasColumn(f) /\ columns[frames[f].col].ws = ws) =>
         LET L == Layout(ws)
             i == IndexOf(wsColumns[ws], frames[f].col)
             rest == Remove(L[i], f)
         IN /\ (MoveStep(f, "left") /\ i = 1) =>
                 LayoutOf(columns', wsColumns', ws) =
                   <<<<f>>>> \o (IF rest = <<>> THEN <<>> ELSE <<rest>>) \o Tail(L)
            /\ (MoveStep(f, "right") /\ i = Len(L)) =>
                 LayoutOf(columns', wsColumns', ws) =
                   Front(L) \o (IF rest = <<>> THEN <<>> ELSE <<rest>>) \o <<<<f>>>>]_vars

C3_Witness ==
  /\ last.op = "moveWindow" /\ last.dir = "left" /\ HasColumn(last.win)
  /\ \E ws \in WsIds : /\ Len(wsColumns[ws]) = 2
                       /\ Layout(ws)[1] = <<last.win>>
                       /\ Len(Layout(ws)[2]) = 2

\* C4: moveWindow left (right) on a frame whose column has a left (right)
\* neighbour adds the frame to that neighbour, creates no column, leaves
\* every other frame where it was, and the original column is gone exactly
\* when the frame was its only member
C4_NeighbourMove ==
  [][\A f \in Windows : \A ws \in WsIds :
       (HasColumn(f) /\ columns[frames[f].col].ws = ws) =>
         LET L == Layout(ws)
             i == IndexOf(wsColumns[ws], frames[f].col)
             rest == Remove(L[i], f)
             gone == rest = <<>>
             into(t) == [k \in 1..Len(L) |->
                           IF k = t THEN Append(L[t], f) ELSE IF k = i THEN rest ELSE L[k]]
             after(t) == IF gone THEN RemoveAt(into(t), i) ELSE into(t)
         IN /\ (MoveStep(f, "left") /\ i > 1) =>
                 \E M \in {LayoutOf(columns', wsColumns', ws)} :
                   /\ Len(M) = IF gone THEN Len(L) - 1 ELSE Len(L)
                   /\ \A k \in DOMAIN M :
                        IF k = i - 1 THEN Remove(M[k], f) = L[i - 1] /\ f \in Range(M[k])
                        ELSE M[k] = after(i - 1)[k]
            /\ (MoveStep(f, "right") /\ i < Len(L)) =>
                 \E M \in {LayoutOf(columns', wsColumns', ws)} :
                   /\ Len(M) = IF gone THEN Len(L) - 1 ELSE Len(L)
                   /\ \A k \in DOMAIN M :
                        IF k = (IF gone THEN i ELSE i + 1)
                        THEN Remove(M[k], f) = L[i + 1] /\ f \in Range(M[k])
                        ELSE M[k] = after(i + 1)[k]
            /\ (MoveStep(f, "left") \/ MoveStep(f, "right")) =>
                 \A o \in WsIds \ {ws} : LayoutOf(columns', wsColumns', o) = Layout(o)]_vars

C4_Witness ==
  /\ last.op = "moveWindow" /\ last.dir = "left" /\ HasColumn(last.win)
  /\ \E ws \in WsIds : /\ Len(wsColumns[ws]) = 2
                       /\ Len(Layout(ws)[1]) = 2
                       /\ Layout(ws)[1][2] = last.win

\* C5: moveWindow up (down) swaps the frame with the one before (after) it in
\* its column and is a no-op for the first (last) frame; nothing else
\* changes; for a frame that is not first, up and then down restores the tree
SwapAt(fs, i, j) == [k \in DOMAIN fs |-> IF k = i THEN fs[j] ELSE IF k = j THEN fs[i] ELSE fs[k]]

C5_VerticalMove ==
  [][\A f \in Windows :
       HasColumn(f) =>
         LET c == frames[f].col
             fs == columns[c].frames
             i == IndexOf(fs, f)
         IN /\ MoveStep(f, "up") =>
                 /\ columns' = [columns EXCEPT ![c].frames =
                                   IF i > 1 THEN SwapAt(fs, i - 1, i) ELSE fs]
                 /\ UNCHANGED <<frames, wsColumns, dockAreas, wsOutput, activeWs>>
            /\ MoveStep(f, "down") =>
                 /\ columns' = [columns EXCEPT ![c].frames =
                                   IF i < Len(fs) THEN SwapAt(fs, i, i + 1) ELSE fs]
                 /\ UNCHANGED <<frames, wsColumns, dockAreas, wsOutput, activeWs>>
            /\ i > 1 => LET r == moveWindow(moveWindow(State, f, "up"), f, "down")
                        IN /\ r.columns = columns /\ r.frames = frames
                           /\ moveWindow(State, f, "up").columns # columns]_vars

C5_Witness ==
  /\ last.op = "moveWindow" /\ last.dir = "up" /\ HasColumn(last.win)
  /\ Len(columns[frames[last.win].col].frames) = 3
  /\ columns[frames[last.win].col].frames[2] = last.win

\* the workspace whose tree holds the frame, -1 for none
WsOfFrame(fr, cols, f) ==
  IF f \in DOMAIN fr /\ fr[f].col \in DOMAIN cols THEN cols[fr[f].col].ws ELSE -1

Requested(rs, kind, win) == \E i \in DOMAIN rs : rs[i].kind = kind /\ rs[i].win = win

\* no frame has changed its container or its place in it
SameContainers ==
  /\ DOMAIN frames' = DOMAIN frames
  /\ \A ws \in WsIds : LayoutOf(columns', wsColumns', ws) = Layout(ws)
  /\ dockAreas' = dockAreas
  /\ \A f \in DOMAIN frames : frames'[f].col = frames[f].col

\* C6: a switch to a workspace that belongs to another output fails with
\* "multiple outputs not supported yet" and changes neither the outputs of
\* the workspaces nor the active workspace, the columns or the frames
C6_OtherOutputRejected ==
  [][\A id \in WsIds :
       (Handled("switchWorkspace") /\ last'.id = id /\ wsOutput[id] \notin {NoOutput, Output0}) =>
         /\ last'.err.msg = "failed to ensure workspace"
         /\ last'.err.cause = "multiple outputs not supported yet"
         /\ UNCHANGED <<wsOutput, activeWs, columns, wsColumns, frames, dockAreas>>]_vars

C6_Witness ==
  /\ last.op = "switchWorkspace"
  /\ last.err.cause = "multiple outputs not supported yet"
  /\ wsOutput[last.id] = OtherOutput
  /\ \E ws \in WsIds : wsColumns[ws] # <<>>

\* C7: moveFrameToWorkspace on a frame that is not in the active workspace
\* returns an error, no frame changes its container and no unmap of the
\* frame is requested
C7_NotContainedFails ==
  [][\A f \in Windows :
       (Handled("moveFrameToWorkspace") /\ last'.win = f /\ ~wsHasFrame(State, activeWs, f)) =>
         /\ last'.err # NoErr
         /\ SameContainers
         /\ ~Requested(reqs', "UnmapWindow", f)]_vars

\* C8 as it is claimed: after a successful moveFrameToWorkspace to another
\* workspace the frame is in the target and not in the source and the unmap
\* of the client was requested; when the loop has handled the resulting
\* UnmapNotify the frame is unmapped and in the target workspace
MovedToTarget(f, t) ==
  /\ Handled("moveFrameToWorkspace") /\ last'.win = f /\ last'.id = t
  /\ last'.err = NoErr /\ t # activeWs

MoveEffect(f, t) ==
  MovedToTarget(f, t) =>
    /\ WsOfFrame(frames', columns', f) = t
    /\ Cardinality({ws \in WsIds : f \in UNION {Range(c) : c \in Range(LayoutOf(columns', wsColumns', ws))}}) = 1
    /\ Requested(reqs', "UnmapWindow", f)

\* the loop handles the UnmapNotify that the window manager's own unmap of
\* f, made when f had entered workspace t, has caused
HandlesOwnUnmap(f, t) ==
  /\ Handled("unmapNotify") /\ events # <<>>
  /\ Head(events).win = f /\ Head(events).by = "wm" /\ Head(events).ws = t

C9_OnUnmap ==
  \A w \in DOMAIN frames : \A flt \in FaultsOf({"UnmapWindow"}) :
    LET s == Begin(flt)
        r == onUnmap(s, w)
        p == frames[w].parent
    IN /\ ~frames[w].mapped => r = s
       /\ frames[w].mapped =>
            /\ r.reqs = IF p # NoWin
                        THEN <<[kind |-> "UnmapWindow", win |-> p, geom |-> ZeroGeom]>>
                        ELSE <<>>
            /\ r.err = NoErr => r = [s EXCEPT !.frames[w].mapped = FALSE, !.reqs = r.reqs]
            /\ r.err # NoErr => r.frames = frames
       /\ r.err = NoErr => ~r.frames[w].mapped

C9_Witness ==
  /\ last.op = "unmapNotify" /\ last.err = NoErr
  /\ last.win \in DOMAIN frames /\ ~frames[last.win].mapped
  /\ reqs # <<>> /\ reqs[1] = [kind |-> "UnmapWindow", win |-> ParentOf(last.win), geom |-> ZeroGeom]
  /\ \E w \in DOMAIN frames : frames[w].mapped

\* C10: renderFrame on an unmapped frame sends no ConfigureWindow and no
\* SendEvent and changes nothing, neither frame.geom nor the place of the
\* frame in its column or dock area; so no step of the loop sends such a
\* request for a frame that is unmapped, or changes its stored geometry
GeomSamples == {fullArea(State), [x |-> 0, y |-> 0, w |-> OutW \div 2, h |-> OutH \div 2]}

C10_UnmappedNotRendered ==
  [][\A w \in DOMAIN frames :
       ~frames[w].mapped =>
         /\ \A g \in GeomSamples : renderFrame(State, w, g) = State
         /\ (w \in DOMAIN frames' /\ ~frames'[w].mapped) =>
              /\ frames'[w].geom = frames[w].geom
              /\ \A i \in DOMAIN reqs' :
                   reqs'[i].kind \in {"ConfigureWindow", "SendEvent"} =>
                     reqs'[i].win \notin ({w, frames[w].parent} \ {NoWin})]_vars

C10_Witness ==
  /\ last.op = "manage" /\ last.err = NoErr
  /\ \E w \in DOMAIN frames :
       /\ ~frames[w].mapped /\ frames[w].geom # ZeroGeom
       /\ HasColumn(w) /\ HasColumn(last.win)
       /\ frames[w].col = frames[last.win].col
       /\ Requested(reqs, "ConfigureWindow", last.win)

\* the place of a frame: its column and index there, or its dock area and
\* index there
PlaceIn(cols, docks, fr, f) ==
  IF fr[f].col \in DOMAIN cols
  THEN <<"column", fr[f].col, IndexOf(cols[fr[f].col].frames, f)>>
  ELSE <<"dock", 0, IF IndexOf(docks["top"], f) # 0 THEN IndexOf(docks["top"], f)
                    ELSE 0 - IndexOf(docks["bottom"], f)>>

\* C11: handling the UnmapNotify of a frame and mapping the frame again
\* leave its container window and its place in its column as they were and
\* create no window; after the unmap the frame is not rendered, after the
\* map it is mapped and rendered again (its container is configured)
C11_RemapKeepsFrame ==
  [][\A f \in DOMAIN frames :
       /\ (Handled("unmapNotify") /\ last'.win = f) =>
            /\ f \in DOMAIN frames'
            /\ frames'[f].parent = frames[f].parent
            /\ PlaceIn(columns', dockAreas', frames', f) = PlaceIn(columns, dockAreas, frames, f)
            /\ last'.err = NoErr => ~frames'[f].mapped
       /\ (Handled("remap") /\ last'.win = f) =>
            /\ f \in DOMAIN frames'
            /\ frames'[f].parent = frames[f].parent
            /\ PlaceIn(columns', dockAreas', frames', f) = PlaceIn(columns, dockAreas, frames, f)
            /\ \A i \in DOMAIN reqs' : reqs'[i].kind \notin {"CreateWindow", "ReparentWindow"}
            /\ last'.err = NoErr =>
                 /\ frames'[f].mapped
                 /\ frames[f].typ = "normal" => Requested(reqs', "ConfigureWindow", frames[f].parent)
       /\ frames[f].mapped =>
            LET s1 == onUnmap(State, f)
                s2 == doMap(s1, f)
            IN (s1.err = NoErr /\ s2.err = NoErr) =>
                 /\ ~s1.frames[f].mapped
                 /\ s2.frames = frames /\ s2.columns = columns /\ s2.dockAreas = dockAreas]_vars

C11_Witness ==
  /\ last.op = "remap" /\ last.err = NoErr
  /\ HasColumn(last.win) /\ frames[last.win].mapped
  /\ Len(columns[frames[last.win].col].frames) = 2
  /\ columns[frames[last.win].col].frames[1] = last.win
  /\ Requested(reqs, "ConfigureWindow", ParentOf(last.win))

\* C12: a frame with mapped = TRUE is the frame of a window (a normal one
\* has its container window) and renderFrame has given it a geometry
C12_MappedIsPlaced ==
  \A w \in DOMAIN frames :
    frames[w].mapped =>
      /\ w \in Windows /\ w # NoWin
      /\ frames[w].typ = "normal" => frames[w].parent = ParentOf(w)
      /\ frames[w].geom # ZeroGeom

C12_Witness ==
  /\ last.op = "manage" /\ last.err # NoErr
  /\ last.win \in DOMAIN frames /\ frames[last.win].mapped
  /\ \E w \in DOMAIN frames : frames[w].typ = "normal" /\ frames[w].mapped /\ w # last.win

\* C13: when the loop has handled the DestroyNotify of a window, no column
\* and no dock area holds a frame of that window: findFrame finds none
C13_DestroyedIsGone ==
  last.op = "destroyNotify" =>
    /\ findFrame(State, last.win) = 0
    /\ last.win \notin DOMAIN frames

\* the rejections of ConfigureWindow a render is tried under: none, or all
\* requests naming one or two windows
ConfigureFaults == {F \in SUBSET ({"ConfigureWindow"} \X XWins) : Cardinality(F) <= 2}

RECURSIVE FirstErr(_)
FirstErr(es) == IF es = <<>> THEN NoErr
                ELSE IF Head(es) # NoErr THEN Head(es) ELSE FirstErr(Tail(es))

RECURSIVE LastErr(_)
LastErr(es) == IF es = <<>> THEN NoErr
               ELSE IF es[Len(es)] # NoErr THEN es[Len(es)] ELSE LastErr(Front(es))

Failing(es) == {i \in DOMAIN es : es[i] # NoErr}

\* the errors and the requests of the three regions, each rendered alone
RegionErrs(s) == <<renderDock(s, "top").err, renderDock(s, "bottom").err,
                   renderWorkspace(s, s.activeWs).err>>

RegionReqs(s) == renderDock(s, "top").reqs \o renderDock(s, "bottom").reqs
                   \o renderWorkspace(s, s.activeWs).reqs

\* C14 as it is claimed: renderOutput sends the requests of all three
\* regions whichever of them fail, and when more than one region fails it
\* returns the error of the first that failed
C14_FirstRegionError ==
  \A flt \in ConfigureFaults :
    LET s == Begin(flt)
        r == renderOutput(s)
    IN /\ r.reqs = RegionReqs(s)
       /\ Cardinality(Failing(RegionErrs(s))) > 1 => r.err = FirstErr(RegionErrs(s))

\* C14 amended: all three regions are attempted, and the error returned is
\* that of the last region that failed (nil when none failed)
C14_LastRegionError ==
  \A flt \in ConfigureFaults :
    LET s == Begin(flt)
        r == renderOutput(s)
    IN /\ r.reqs = RegionReqs(s)
       /\ r.err = LastErr(RegionErrs(s))

C14_Witness ==
  /\ last.op = "unmapNotify" /\ last.win \in DOMAIN frames
  /\ frames[last.win].typ = "dock"
  /\ last.err.cause = "ConfigureWindow" /\ last.err.win # NoWin
  /\ \E w \in Range(dockAreas["top"]) : frames[w].mapped
  /\ Requested(reqs, "ConfigureWindow", NoWin)

\* the errors of rendering each frame of a list alone (the error of
\* renderFrame does not depend on the rectangle), and of each column alone
FrameErrs(s, fs) == [i \in DOMAIN fs |-> renderFrame(s, fs[i], ZeroGeom).err]

ColumnErrs(s, ws) ==
  [i \in DOMAIN s.wsColumns[ws] |->
     renderColumn(s, s.wsColumns[ws][i], [x |-> 0, y |-> 0, w |-> OutW, h |-> OutH]).err]

\* every mapped frame of the list was attempted: its container was configured
Attempted(r, fs) ==
  \A i \in DOMAIN fs :
    r.frames[fs[i]].mapped => Requested(r.reqs, "ConfigureWindow", r.frames[fs[i]].parent)

\* C15: renderDock, renderWorkspace and renderColumn attempt every sibling
\* whichever of them fail, and each returns the error of the last sibling
\* that failed, so a non-nil error whenever one failed
C15_LastSiblingError ==
  \A flt \in ConfigureFaults :
    LET s == Begin(flt)
    IN /\ \A a \in Areas :
            /\ Attempted(renderDock(s, a), dockAreas[a])
            /\ renderDock(s, a).err = LastErr(FrameErrs(s, dockAreas[a]))
       /\ \A c \in DOMAIN columns :
            \A g \in GeomSamples :
              /\ Attempted(renderColumn(s, c, g), columns[c].frames)
              /\ renderColumn(s, c, g).err = LastErr(FrameErrs(s, columns[c].frames))
       /\ \A ws \in WsIds :
            /\ \A i \in DOMAIN wsColumns[ws] :
                 Attempted(renderWorkspace(s, ws), columns[wsColumns[ws][i]].frames)
            /\ renderWorkspace(s, ws).err = LastErr(ColumnErrs(s, ws))

\* the output rectangle without the dock areas in use (every dock frame is
\* DockH high)
UsableArea == [x |-> 0, y |-> DockH * Len(dockAreas["top"]), w |-> OutW,
               h |-> OutH - DockH * Len(dockAreas["top"]) - DockH * Len(dockAreas["bottom"])]

\* C16: renderWorkspace of a workspace whose only frame is f gives f, when
\* it is mapped, the whole usable area, no gap taken off, and renders
\* nothing else; it sends nothing when f is unmapped
C16_SingleFrameFullArea ==
  \A ws \in WsIds : \A f \in DOMAIN frames :
     Layout(ws) = << <<f>> >> =>
       LET r == renderWorkspace(State, ws)
           a == UsableArea
       IN IF frames[f].mapped
          THEN /\ r.reqs = << [kind |-> "ConfigureWindow", win |-> frames[f].parent, geom |-> a],
                              [kind |-> "ConfigureWindow", win |-> f,
                               geom |-> [x |-> 0, y |-> 0, w |-> a.w, h |-> a.h]],
                              [kind |-> "SendEvent", win |-> f, geom |-> a] >>
               /\ r.frames[f].geom = a
               /\ r.err = NoErr
          ELSE r.reqs = <<>> /\ r.frames = frames

C16_Witness ==
  /\ last.op = "manage" /\ last.win \in DOMAIN frames
  /\ Layout(activeWs) = << <<last.win>> >>
  /\ dockAreas["top"] # <<>>
  /\ frames[last.win].mapped
  /\ frames[last.win].geom = [x |-> 0, y |-> DockH, w |-> OutW, h |-> OutH - DockH]

Rect(x, y, w, h) == [x |-> x, y |-> y, w |-> w, h |-> h]

\* the scene of the example: a 1920x1080 output, gap 5, one 30 pixel dock
\* frame d at the top and none at the bottom, the active workspace with two
\* columns 960 wide holding the mapped frames f1 and f2
Scene(d, f1, f2) ==
  /\ OutW = 1920 /\ OutH = 1080 /\ InnerGap = 5
  /\ dockAreas["top"] = <<d>> /\ dockAreas["bottom"] = <<>>
  /\ frames[d].height = 30 /\ frames[d].mapped
  /\ Layout(activeWs) = << <<f1>>, <<f2>> >>
  /\ \A i \in {1, 2} : columns[wsColumns[activeWs][i]].width = 960
  /\ frames[f1].mapped /\ frames[f2].mapped

\* C17 as it is claimed: rendering the scene gives the dock frame
\* {0,0,1920,30} and the two frames {5,40,950,1010} and {965,40,950,1010}
C17_SceneAsClaimed ==
  \A d \in DOMAIN frames : \A f1 \in DOMAIN frames : \A f2 \in DOMAIN frames :
    Scene(d, f1, f2) =>
      LET r == renderOutput(State)
      IN /\ r.frames[d].geom = Rect(0, 0, 1920, 30)
         /\ r.frames[f1].geom = Rect(5, 40, 950, 1010)
         /\ r.frames[f2].geom = Rect(965, 40, 950, 1010)

\* C17 amended: rendering the scene gives the dock frame {0,0,1920,30} and
\* the two frames {5,35,950,1040} and {965,35,950,1040}, and these are the
\* rectangles sent for their container windows
C17_SceneGeometry ==
  \A d \in DOMAIN frames : \A f1 \in DOMAIN frames : \A f2 \in DOMAIN frames :
    Scene(d, f1, f2) =>
      LET r == renderOutput(State)
          sent(w, g) == \E i \in DOMAIN r.reqs :
                          r.reqs[i] = [kind |-> "ConfigureWindow", win |-> w, geom |-> g]
      IN /\ r.frames[d].geom = Rect(0, 0, 1920, 30)
         /\ r.frames[f1].geom = Rect(5, 35, 950, 1040)
         /\ r.frames[f2].geom = Rect(965, 35, 950, 1040)
         /\ sent(frames[d].parent, Rect(0, 0, 1920, 30))
         /\ sent(frames[f1].parent, Rect(5, 35, 950, 1040))
         /\ sent(frames[f2].parent, Rect(965, 35, 950, 1040))

C17_Witness ==
  /\ last.op = "manage"
  /\ \E d \in DOMAIN frames : \E f1 \in DOMAIN frames : \E f2 \in DOMAIN frames :
       /\ Scene(d, f1, f2)
       /\ frames[d].geom = Rect(0, 0, 1920, 30)
       /\ frames[f1].geom = Rect(5, 35, 950, 1040)
       /\ frames[f2].geom = Rect(965, 35, 950, 1040)

IsPrefix(p, q) == Len(p) <= Len(q) /\ SubSeq(q, 1, Len(p)) = p

Notified == {"unmapNotify", "destroyNotify"}

\* C18: the loop takes the notifications one at a time from the head of the
\* queue, in the order the server queued them, and only when no handler is
\* running; the UnmapNotify that moveFrameToWorkspace causes is queued, not
\* handled, by the operation: when the operation has ended with the frame in
\* its new workspace and both workspaces rendered, the notification is the
\* last of the queue and the frame is still as mapped as before
C18_OneAtATime ==
  [][/\ (last'.op \in Notified /\ last' # last) =>
          /\ last = Idle /\ events # <<>>
          /\ Head(events).win = last'.win
          /\ Head(events).type = (IF last'.op = "unmapNotify" THEN "UnmapNotify"
                                  ELSE "DestroyNotify")
          /\ events' = Tail(events)
     /\ (last'.op \notin Notified \/ last' = last) => IsPrefix(events, events')
     /\ \A f \in Windows : \A t \in WsIds :
          (MovedToTarget(f, t) /\ f \in srvMapped) =>
            /\ events' = Append(events, Event("UnmapNotify", f, "wm", t))
            /\ frames'[f].mapped = frames[f].mapped
            /\ WsOfFrame(frames', columns', f) = t
            /\ \E i \in DOMAIN reqs' :
                 /\ reqs'[i].kind = "UnmapWindow" /\ reqs'[i].win = f
                 /\ reqs'[Len(reqs')].kind = "ChangeProperty" /\ i < Len(reqs')
     /\ \A f \in Windows : \A t \in WsIds :
          HandlesOwnUnmap(f, t) => (last = Idle /\ f \notin srvMapped)]_vars

C18_Witness ==
  /\ last.op = "moveFrameToWorkspace" /\ last.err = NoErr
  /\ Len(events) = 2
  /\ events[1].by = "client" /\ events[1].win # last.win
  /\ events[2] = Event("UnmapNotify", last.win, "wm", last.id)
  /\ frames[last.win].mapped
  /\ WsOfFrame(frames, columns, last.win) = last.id

\* C19: neither loop ends because a handler has failed: Manager.Run is still
\* looping whatever its handlers have returned, and when a handler of
\* WM.Run has returned an error the loop goes back to wait for the next event
C19_LoopsNeverStop ==
  /\ mgr.running
  /\ (last # Idle /\ last.err # NoErr /\ ~panicked) => ENABLED LoopBack

\* the requests of renderFrame
RenderKinds == {"ConfigureWindow", "SendEvent"}

\* the frame switchWorkspace focuses by default: the first frame of the
\* first column of the workspace, NoWin when it has no column
DefaultFocus(s, id) ==
  LET fs == LayoutOf(s.columns, s.wsColumns, id)
  IN IF fs # <<>> /\ fs[1] # <<>> THEN fs[1][1] ELSE NoWin

\* the requests that follow the render: hints, focus to the root, focus to
\* the default frame when there is one
AfterRender(first) ==
  <<[kind |-> "ChangeProperty", win |-> Root, geom |-> ZeroGeom],
    [kind |-> "SetInputFocus", win |-> Root, geom |-> ZeroGeom]>>
  \o (IF first = NoWin THEN <<>>
      ELSE <<[kind |-> "SetInputFocus", win |-> first, geom |-> ZeroGeom]>>)

\* t is the state switchWorkspace(id) returns when it starts in the current
\* state: its steps came in the claimed order, the first that failed was
\* the last one made and its error is returned, the default focus is set
SwitchedInOrder(t, id) ==
  LET r == t.reqs
      n == Cardinality({i \in DOMAIN r : r[i].kind \in RenderKinds})
      rest == SubSeq(r, n + 1, Len(r))
      first == DefaultFocus(t, id)
      bad == {i \in DOMAIN r : Fails(t, r[i].kind, r[i].win)}
      step(i, m) == bad = {n + i} => t.err.msg = m /\ t.err.cause = r[n + i].kind
  IN IF id \notin WsIds \/ wsOutput[id] = OtherOutput
     THEN /\ t.err.msg = "failed to ensure workspace"
          /\ r = <<>>
          /\ t.activeWs = activeWs /\ t.activeWin = activeWin
     ELSE /\ t.activeWs = id /\ t.wsOutput[id] = Output0
          /\ \A i \in 1..n : r[i].kind \in RenderKinds
          /\ \A f \in DOMAIN frames :
                (frames[f].mapped /\ WsOfFrame(t.frames, t.columns, f) = id)
                   => Requested(SubSeq(r, 1, n), "ConfigureWindow", frames[f].parent)
          /\ IsPrefix(rest, AfterRender(first))
          /\ bad \subseteq (1..n) \cup {Len(r)}
          /\ (bad \cap (1..n) # {}) => rest = <<>> /\ t.err.msg = "wm.renderWorkspace"
          /\ step(1, "failed to update desktop hints")
          /\ step(2, "failed to remove focus")
          /\ step(3, "failed to set focus")
          /\ bad # {} => t.err # NoErr
          /\ bad = {} => t.err = NoErr /\ rest = AfterRender(first) /\ t.activeWin = first
          /\ Len(rest) < 2 => t.activeWin = activeWin

\* C20: switchWorkspace resolves the workspace, makes it the active one of
\* the output, renders it, refreshes the desktop hints, clears the focus and
\* sets the default focus, in this order; the first step that fails is the
\* last one made and its error is returned; when none fails the focus is on
\* the first frame of the first column, and on no window when the workspace
\* has no frame.
C20_SwitchInOrder ==
  Waiting =>
    \A id \in 0..NumWs,
       flt \in FaultOn({"ConfigureWindow", "SendEvent", "ChangeProperty", "SetInputFocus"}) :
       SwitchedInOrder(switchWorkspace(Begin(flt), id), id)

\* a switch to workspace 1 has succeeded: its frame was rendered, the hints
\* and the two focus requests followed, and the frame has the focus
C20_Witness ==
  /\ last.op = "switchWorkspace" /\ last.id = 1 /\ last.err = NoErr
  /\ activeWs = 1
  /\ activeWin \in Clients /\ activeWin = DefaultFocus(State, 1)
  /\ frames[activeWin].mapped
  /\ Len(reqs) = 6
  /\ SubSeq(reqs, 4, 6) = AfterRender(activeWin)

\* the three server calls of renderFrame for frame w and rectangle g
FrameCalls(w, g) ==
  <<[kind |-> "ConfigureWindow", win |-> frames[w].parent, geom |-> g],
    [kind |-> "ConfigureWindow", win |-> w,
     geom |-> [x |-> 0, y |-> 0, w |-> g.w, h |-> g.h]],
    [kind |-> "SendEvent", win |-> w, geom |-> g]>>

\* the number of calls renderFrame makes under fault flt: up to the first
\* that the server rejects
CallsMade(s, calls) ==
  LET bad == {i \in DOMAIN calls : Fails(s, calls[i].kind, calls[i].win)}
  IN IF bad = {} THEN Len(calls) ELSE CHOOSE i \in bad : \A j \in bad : i <= j

\* renderFrame(w, g) started in the current state under fault flt: the
\* rectangle is stored, the calls are made in order up to the first that
\* fails, whose error is returned, and nothing else changes
FrameRendered(w, g, flt) ==
  LET s == Begin(flt)
      calls == FrameCalls(w, g)
      k == CallsMade(s, calls)
  IN renderFrame(s, w, g) =
       [s EXCEPT !.frames[w].geom = IF geomKept THEN g ELSE @,
                 !.reqs = SubSeq(calls, 1, k),
                 !.err = IF Fails(s, calls[k].kind, calls[k].win)
                         THEN Err(calls[k].kind, calls[k].win) ELSE NoErr]

\* the loops over sibling frames started in the current state under fault
\* flt: every mapped frame of the column, and of the dock area, is rendered
SiblingsRendered(flt) ==
  LET s == Begin(flt)
      mappedIn(fs) == {i \in DOMAIN fs : frames[fs[i]].mapped}
  IN /\ \A c \in DOMAIN columns, g \in GeomSamples :
          LET t == renderColumn(s, c, g)
          IN /\ \A i \in mappedIn(columns[c].frames) :
                   Requested(t.reqs, "ConfigureWindow", frames[columns[c].frames[i]].parent)
             /\ (\E i \in DOMAIN t.reqs : Fails(t, t.reqs[i].kind, t.reqs[i].win))
                   => t.err # NoErr
     /\ \A a \in Areas :
          Len(renderDock(s, a).reqs) = Cardinality(mappedIn(dockAreas[a]))

\* C21: for a mapped frame renderFrame stores the rectangle, then configures
\* the container window to it, the client window to (0,0) with its width
\* and height, and sends the client the configure notification, in this
\* order; the first call that fails is the last one made and its error is
\* returned; renderColumn and renderDock go on to the sibling frames.
C21_RenderFrameSteps ==
  Waiting =>
    \A flt \in FaultOn({"ConfigureWindow", "SendEvent"}) :
      /\ \A w \in DOMAIN frames, g \in GeomSamples :
            frames[w].mapped => FrameRendered(w, g, flt)
      /\ SiblingsRendered(flt)

\* a window was managed into a column while the server rejected the
\* ConfigureWindow of its sibling's client window: the sibling's rectangle
\* is stored and its container was configured, it got no notification, and
\* the new frame was rendered in full
C21_Witness ==
  /\ last.op = "manage" /\ last.err.cause = "ConfigureWindow"
  /\ \E c \in DOMAIN columns : \E i, j \in DOMAIN columns[c].frames :
       LET w1 == columns[c].frames[i]
           w2 == columns[c].frames[j]
       IN /\ i < j /\ frames[w1].mapped /\ frames[w2].mapped
          /\ last.err.win = w1 /\ last.win = w2
          /\ \E k \in DOMAIN reqs :
               /\ reqs[k].kind = "ConfigureWindow" /\ reqs[k].win = frames[w1].parent
               /\ reqs[k].geom = frames[w1].geom
               /\ reqs[k + 1].kind = "ConfigureWindow" /\ reqs[k + 1].win = w1
               /\ reqs[k + 2].win = frames[w2].parent
          /\ ~Requested(reqs, "SendEvent", w1)
          /\ Requested(reqs, "SendEvent", w2)

\* the rectangle renderWorkspace gives renderColumn for column c: the area
\* of the workspace, from the widths of the columns before c, c's width wide
RECURSIVE WidthsBefore(_, _)
WidthsBefore(cs, i) == IF i <= 1 THEN 0 ELSE columns[cs[i - 1]].width + WidthsBefore(cs, i - 1)

ColumnRect(c) ==
  LET cs == wsColumns[columns[c].ws]
      a == area(State)
  IN [x |-> a.x + WidthsBefore(cs, IndexOf(cs, c)), y |-> a.y,
      w |-> columns[c].width, h |-> a.h]

Inside(g, outer) ==
  /\ outer.x <= g.x /\ g.x + g.w <= outer.x + outer.w
  /\ outer.y <= g.y /\ g.y + g.h <= outer.y + outer.h

\* C22: every rectangle renderColumn passes to renderFrame lies inside the
\* rectangle of the column, whatever the frame heights, the column width
\* and the configured gap: neither width - 2*gap nor height - 2*gap wraps
\* around, the column's width and its frames' heights being at least
\* twice the gap.
NoWrap(c) ==
  \A i \in DOMAIN columns[c].frames :
    /\ config.InnerGap * 2 <= columns[c].width
    /\ config.InnerGap * 2 <= frames[columns[c].frames[i]].height

\* the rectangles of the container windows and of the notifications are
\* those renderColumn passed; a client is configured relative to its container
PassedInside(c) ==
  LET geom == ColumnRect(c)
      t == renderColumn(State, c, geom)
  IN \A k \in DOMAIN t.reqs :
       (t.reqs[k].kind = "SendEvent" \/ t.reqs[k].win > MaxWin)
          => Inside(t.reqs[k].geom, geom)

C22_RectsInsideColumn ==
  Waiting =>
    \A c \in DOMAIN columns :
      (columns[c].ws = activeWs /\ singleFrame(State, activeWs) = 0)
         => NoWrap(c) /\ PassedInside(c)

\* a moveWindow step for window win, whether it ended or the process died
MoveWindowOn(win) == last = Idle /\ last'.op = "moveWindow" /\ last'.win = win

\* C23: moveWindow is safe for every window: for one that has no frame it
\* returns and the tree is as before; for one whose frame is a dock frame,
\* found in a dock area and owned by no column, it does not dereference
\* the missing column (the process does not die) and the columns and dock
\* areas are as before.
C23_MoveWindowSafe ==
  [][\A win \in Windows :
       (MoveWindowOn(win) /\ (win \notin DOMAIN frames \/ frames[win].col = 0))
          => /\ ~panicked'
             /\ last'.err = NoErr
             /\ UNCHANGED <<frames, columns, wsColumns, dockAreas>>]_vars

====
